---- MODULE Spec2Model ----
(***************************************************************************)
(* Model of ForgeDesigner.py: the forge specification calculator          *)
(* calculate_forge_specs (specification Spec: two calls for one chamber)   *)
(* and a run of main() from the command line to the exit of the process    *)
(* (specification SpecMain: the prompts of get_user_input, validate_inputs,*)
(* the calculator, the JSON export and build_pdf).                         *)
(*                                                                         *)
(* Numbers.  Python floats are held as exact fixed-point integers:         *)
(*   width, height, length          whole inches                           *)
(*   insulation                     half inches   (1 = 0.5")               *)
(*   external_w/h/l, steel cuts     half inches                            *)
(*   internal_volume, btu_required  units                                  *)
(*   burner_length, door sizes, refractory_bags, refractory_weight,        *)
(*   blanket_sqft                   tenths                                 *)
(*   estimated_cost                 cents                                  *)
(* On this grid every binary64 operation of the calculator is exact or is  *)
(* followed by a round() whose result the exact value decides, with two    *)
(* exceptions that are modelled by the sign of the binary64 error at a     *)
(* decimal tie (Mul085Below/Above, Div55Below/Above).  round() is Python   *)
(* 3's: ties go to the even neighbour.                                     *)
(* An input float is a record [m, e] standing for m * 10^e, so that a      *)
(* product can leave the binary64 range.                                   *)
(***************************************************************************)
EXTENDS Integers, Sequences, FiniteSets, TLC

\* ------------------------------------------------------------------ bounds
MaxWidth == 6
MaxHeight == 10
MaxLength == 14
MaxInsulation == 6
MaxClock == 1
\* door_config is any int the user types; 1, 2 and 3 are the menu entries
MaxDoorConfig == 3
\* the numbers typed at a prompt of get_user_input are -1..MaxTyped
MaxTyped == 2

\* --------------------------------------------------------------- constants
REFRACTORY_DENSITY_LB_PER_CF == 92
REFRACTORY_BAG_SIZE_LB == 55
BTU_PER_CUBIC_INCH == 450
HOLE_COVERAGE_CI == 18
MIN_BURNER_HOLES == 12
BURNER_ROWS == 3
COST_REFRACTORY_PER_BAG == 110
COST_BASE_MATERIALS == 250
\* HOLE_SPACING = 0.75, in hundredths
HOLE_SPACING == 75
\* sys.float_info.max_10_exp: 10^e is a binary64 value only for e <= 308
FLOAT_MAX_10_EXP == 308
\* the decimal exponent of the large input 1e200
HugeExp == 200

VARIABLES pc, DEBUG_MODE, clock, user_input, specs, first, raised, stdout,
          args, entered, warnings, console, exit_status, json_file, pdf_file

\* the state of a run of main(): the parsed command line, the local
\* variables of get_user_input, the warnings of validate_inputs, what was
\* printed, the exit status of the process and the two files written
main_vars == <<args, entered, warnings, console, exit_status, json_file, pdf_file>>

vars == <<pc, DEBUG_MODE, clock, user_input, specs, first, raised, stdout,
          args, entered, warnings, console, exit_status, json_file, pdf_file>>

\* ------------------------------------------------------------------ floats
Float(m, e) == [m |-> m, e |-> e]

\* float("inf"); -inf has m = -1
Inf == [m |-> 1, e |-> FLOAT_MAX_10_EXP + 1]

\* float("nan")
NaN == [m |-> 0, e |-> FLOAT_MAX_10_EXP + 1]

IsNaN(x) == x.e > FLOAT_MAX_10_EXP /\ x.m = 0

IsInf(x) == x.e > FLOAT_MAX_10_EXP /\ x.m # 0

IsFinite(x) == x.e <= FLOAT_MAX_10_EXP

Sign(n) == IF n < 0 THEN -1 ELSE IF n > 0 THEN 1 ELSE 0

\* binary64 product: nan if a factor is nan or the product is 0 * inf, inf
\* with the sign of the product if a factor is inf or the product overflows
FMul(a, b) ==
    IF IsNaN(a) \/ IsNaN(b) THEN NaN
    ELSE IF a.m * b.m = 0 THEN (IF IsInf(a) \/ IsInf(b) THEN NaN ELSE Float(0, 0))
    ELSE IF a.e + b.e > FLOAT_MAX_10_EXP THEN Float(Sign(a.m * b.m), FLOAT_MAX_10_EXP + 1)
    ELSE Float(a.m * b.m, a.e + b.e)

\* a < n and a > n for a float a on the grid (e = 0), nan or +-inf, and an
\* integer n: every comparison with nan is false
FLess(a, n) == IF IsNaN(a) THEN FALSE ELSE IF IsInf(a) THEN a.m < 0 ELSE a.m < n

FGreater(a, n) == IF IsNaN(a) THEN FALSE ELSE IF IsInf(a) THEN a.m > 0 ELSE a.m > n

\* lo <= a <= hi
FBetween(lo, a, hi) == ~FLess(a, lo) /\ ~FGreater(a, hi) /\ ~IsNaN(a)

Max(a, b) == IF a >= b THEN a ELSE b

\* round to nearest with ties away from zero, for n >= 0: not what Python 3 does
RoundHalfUp(n, d) == (2 * n + d) \div (2 * d)

\* round(n / d) for d > 0: nearest integer, ties to even (float.__round__)
Round(n, d) ==
    LET q == n \div d
        r == n % d
    IN  IF 2 * r > d \/ (2 * r = d /\ q % 2 = 1) THEN q + 1 ELSE q

\* round(x) where the binary64 x lies err below (-1), on (0) or above (1)
\* the exact value n / d
RoundErr(n, d, err) ==
    LET q == n \div d
        r == n % d
    IN  IF 2 * r # d \/ err = 0 THEN Round(n, d)
        ELSE IF err < 0 THEN q ELSE q + 1

\* odd w for which the binary64 product w * 0.85 is below / above 0.85 w
Mul085Below == {1, 3, 9, 11, 13, 17, 19, 21, 27, 29, 31, 37, 39}
Mul085Above == {7, 23, 33}

\* (-w) * 0.85 is -(w * 0.85): the error changes sign with w
Mul085Err(w) ==
    IF w < 0 THEN (IF -w \in Mul085Below THEN 1 ELSE IF -w \in Mul085Above THEN -1 ELSE 0)
    ELSE IF w \in Mul085Below THEN -1 ELSE IF w \in Mul085Above THEN 1 ELSE 0

\* odd j for which the binary64 quotient (63.25 j) / 55 is below / above 1.15 j
Div55Below == {1, 9, 13, 21, 23}
Div55Above == {3, 7, 11, 17, 19, 27, 29}

\* refractory_weight_lb is held in units of 1/WeightDen lb (cubic inches in
\* eighths, 1728 cubic inches per cubic foot)
WeightDen == 8 * 1728

Div55Err(weight) ==
    LET tie == (6325 * WeightDen) \div 100
        j == weight \div tie
    IN  IF weight # j * tie THEN 0
        ELSE IF j < 0
             THEN (IF -j \in Div55Below THEN 1 ELSE IF -j \in Div55Above THEN -1 ELSE 0)
        ELSE IF j \in Div55Below THEN -1 ELSE IF j \in Div55Above THEN 1 ELSE 0

\* ------------------------------------------------------------------ inputs
Widths == 1..MaxWidth
Heights == 1..MaxHeight
Lengths == 1..MaxLength
Insulations == 1..MaxInsulation
DoorConfigs == 1..MaxDoorConfig

Huge == Float(1, HugeExp)

OrdinaryInputs ==
    {[width |-> Float(w, 0), height |-> Float(h, 0), length |-> Float(l, 0),
      insulation |-> Float(i, 0), door_config |-> d] :
        w \in Widths, h \in Heights, l \in Lengths, i \in Insulations, d \in DoorConfigs}

\* width = height = 1e200: finite, positive, and their product is not
OverflowInputs ==
    {[width |-> Huge, height |-> Huge, length |-> Float(l, 0),
      insulation |-> Float(i, 0), door_config |-> d] :
        l \in Lengths, i \in Insulations, d \in DoorConfigs}

Inputs == OrdinaryInputs \cup OverflowInputs

NoSpecs == [generated_date |-> -1]

\* main() has not been started: no arguments, no local variables, nothing
\* printed, the process has no exit status, no file exists
NoArgs == [debug |-> FALSE, json |-> FALSE]

NoLocals == [k \in {} |-> NaN]

NoInput == [door_config |-> -1]

NoFile == [name |-> -1]

Running == -1

\* -------------------------------------------------------------- debug_log
\* debug_log(msg): one more line on stdout when DEBUG_MODE is set
debug_log(out) == IF DEBUG_MODE THEN out + 1 ELSE out

\* ------------------------------------------------- calculate_forge_specs
internal_volume(w, h, l) == w * h * l

external_w_no_insulation(w, ins) == 2 * w + 1

external_w_one_side(w, ins) == 2 * w + ins + 1

\* ext_w = w + (ins * 2) + 0.5, in half inches (ins in half inches)
external_w(w, ins) == 2 * w + 2 * ins + 1

external_h(h, ins) == 2 * h + 2 * ins + 1

\* ext_l = l + 1.0, in half inches
external_l(l) == 2 * l + 2

target_holes_no_minimum(volume) == Round(volume, HOLE_COVERAGE_CI)

\* total_holes = max(MIN_BURNER_HOLES, round(internal_volume / HOLE_COVERAGE_CI))
target_holes(volume) == Max(MIN_BURNER_HOLES, Round(volume, HOLE_COVERAGE_CI))

holes_per_row_floor(total) == total \div BURNER_ROWS

\* holes_per_row = round(total_holes / BURNER_ROWS)
holes_per_row(total) == Round(total, BURNER_ROWS)

total_holes(per_row) == per_row * BURNER_ROWS

burner_length_half_up(per_row) == RoundHalfUp(per_row * HOLE_SPACING + 150, 10)

\* round((holes_per_row * HOLE_SPACING) + 1.5, 1), in tenths
burner_length(per_row) == Round(per_row * HOLE_SPACING + 150, 10)

burner_width == 30

cfm_required_from_holes(volume) ==
    Round(Max(MIN_BURNER_HOLES, Round(volume, HOLE_COVERAGE_CI)) * 12, 10)

\* round((internal_volume / HOLE_COVERAGE_CI) * 1.2)
cfm_required(volume) == Round(volume * 12, HOLE_COVERAGE_CI * 10)

cfm_recommended_derated(cfm) == Round(cfm * 75, 100)

cfm_recommended_half_up(cfm) == RoundHalfUp(cfm * 125, 100)

\* round(cfm_required * 1.25)
cfm_recommended(cfm) == Round(cfm * 125, 100)

static_pressure_inclusive(volume) == IF volume <= 500 THEN "1.5" ELSE "3.0"

static_pressure(volume) == IF volume < 500 THEN "1.5" ELSE "3.0"

\* ext_w * ext_h * ext_l, in eighths of a cubic inch
external_volume_ci(ew, eh, el) == ew * eh * el

refractory_volume_ci_gross(ext_volume, volume) == ext_volume

\* external_volume_ci - internal_volume, in eighths of a cubic inch
refractory_volume_ci(ext_volume, volume) == ext_volume - 8 * volume

\* (refractory_volume_ci / 1728) * REFRACTORY_DENSITY_LB_PER_CF, in 1/WeightDen lb
refractory_weight_lb(ref_volume) == ref_volume * REFRACTORY_DENSITY_LB_PER_CF

\* round(refractory_weight_lb / REFRACTORY_BAG_SIZE_LB, 1), in tenths
refractory_bags(weight) ==
    RoundErr(weight * 10, WeightDen * REFRACTORY_BAG_SIZE_LB, Div55Err(weight))

\* round(refractory_weight_lb, 1), in tenths
refractory_weight(weight) == Round(weight * 10, WeightDen)

front_door_exact_tie(w) == Round(w * 85, 10)

\* round(w * 0.85, 1), in tenths
front_door(w) == RoundErr(w * 85, 10, Mul085Err(w))

rear_door_w_not_front_only(w, door_config) == IF door_config # 1 THEN Round(w * 70, 10) ELSE 0

rear_door_h_full_height(h, door_config) == IF door_config = 2 THEN Round(h * 100, 10) ELSE 0

rear_door_h_as_width(h, door_config) == IF door_config = 2 THEN Round(h * 70, 10) ELSE 0

\* round(w * 0.7, 1) / 0 and round(h * 0.75, 1) / 0, in tenths
rear_door_w(w, door_config) == IF door_config = 2 THEN Round(w * 70, 10) ELSE 0

rear_door_h(h, door_config) == IF door_config = 2 THEN Round(h * 75, 10) ELSE 0

\* the f-string note of the front panel: the two numbers it prints
door_note(door_w, door_h) == [cut_w |-> door_w, cut_h |-> door_h]

\* cuts = [...]: the five plate entries
plate_cuts(ew, eh, el, door_w, door_h) ==
    << [name |-> "Side Panels", qty |-> 2, w |-> el, h |-> eh, thickness |-> "1/4"],
       [name |-> "Top Panel", qty |-> 1, w |-> el, h |-> ew, thickness |-> "1/4"],
       [name |-> "Bottom Panel", qty |-> 1, w |-> el, h |-> ew, thickness |-> "1/4"],
       [name |-> "Front End Panel", qty |-> 1, w |-> ew, h |-> eh, thickness |-> "1/4",
        note |-> door_note(door_w, door_h)],
       [name |-> "Rear End Panel", qty |-> 1, w |-> ew, h |-> eh, thickness |-> "1/4"] >>

angle_cuts_rails_less_two(ew, eh, el) ==
    << [name |-> "Corner Posts", qty |-> 4, length |-> eh, size |-> "2x2x1/8"],
       [name |-> "Top/Bottom Rails", qty |-> 8, length |-> el - 4, size |-> "2x2x1/8"],
       [name |-> "End Rails", qty |-> 8, length |-> ew - 4, size |-> "2x2x1/8"] >>

\* angle_cuts = [...]: lengths in half inches, so ext - 4 is ext - 8
angle_cuts(ew, eh, el) ==
    << [name |-> "Corner Posts", qty |-> 4, length |-> eh, size |-> "2x2x1/8"],
       [name |-> "Top/Bottom Rails", qty |-> 8, length |-> el - 8, size |-> "2x2x1/8"],
       [name |-> "End Rails", qty |-> 8, length |-> ew - 8, size |-> "2x2x1/8"] >>

\* a cut list kept in one module-level list that every call appends to
calculate_steel_cuts_shared(ew, eh, el, door_w, door_h) ==
    [plates |-> (IF specs = NoSpecs THEN << >> ELSE specs.steel_cuts.plates)
                    \o plate_cuts(ew, eh, el, door_w, door_h),
     angle_iron |-> angle_cuts(ew, eh, el)]

calculate_steel_cuts(ew, eh, el, door_w, door_h) ==
    [plates |-> plate_cuts(ew, eh, el, door_w, door_h), angle_iron |-> angle_cuts(ew, eh, el)]

estimated_cost_bags_only(bags) == Round(bags * COST_REFRACTORY_PER_BAG * 100, 10)

\* round(COST_BASE_MATERIALS + (refractory_bags * COST_REFRACTORY_PER_BAG), 2), in cents
estimated_cost(bags) == Round((COST_BASE_MATERIALS * 10 + bags * COST_REFRACTORY_PER_BAG) * 100, 10)

btu_required(volume) == Round(volume * BTU_PER_CUBIC_INCH, 1)

\* round(((ext_l*ext_h*2) + (ext_l*ext_w) + (ext_w*ext_h*2)) / 144, 1), in tenths
blanket_sqft(ew, eh, el) == Round((el * eh * 2 + el * ew + ew * eh * 2) * 10, 4 * 144)

ifb_floor_count_no_minimum(ew, el) == Round(el * ew, 4 * 72)

\* max(2, round((ext_l * ext_w) / 72))
ifb_floor_count(ew, el) == Max(2, Round(el * ew, 4 * 72))

ifb_door_count_rear_only(door_config) == IF door_config = 2 THEN 6 ELSE 4

\* 4 if door_config == 1 else 6
ifb_door_count(door_config) == IF door_config = 1 THEN 4 ELSE 6

\* datetime.now().strftime("%Y-%m-%d %H:%M"): the minute of the call
generated_date(now) == now

\* the specs dictionary of an input whose floats are all on the grid (e = 0)
specs_dict(w, h, l, ins, door_config, now) ==
    LET volume == internal_volume(w, h, l)
        ew == external_w(w, ins)
        eh == external_h(h, ins)
        el == external_l(l)
        per_row == holes_per_row(target_holes(volume))
        cfm == cfm_required(volume)
        weight == refractory_weight_lb(refractory_volume_ci(external_volume_ci(ew, eh, el), volume))
        bags == refractory_bags(weight)
        fdw == front_door(w)
        fdh == front_door(h)
    IN  [internal_w |-> w, internal_h |-> h, internal_l |-> l, insulation |-> ins,
         door_config |-> door_config,
         internal_volume |-> volume,
         external_w |-> ew, external_h |-> eh, external_l |-> el,
         burner_holes |-> total_holes(per_row), holes_per_row |-> per_row,
         burner_rows |-> BURNER_ROWS,
         burner_length |-> burner_length(per_row), burner_width |-> burner_width,
         cfm_required |-> cfm, cfm_recommended |-> cfm_recommended(cfm),
         static_pressure |-> static_pressure(volume),
         refractory_bags |-> bags, refractory_weight |-> refractory_weight(weight),
         blanket_sqft |-> blanket_sqft(ew, eh, el),
         ifb_floor |-> ifb_floor_count(ew, el), ifb_doors |-> ifb_door_count(door_config),
         front_door_w |-> fdw, front_door_h |-> fdh,
         rear_door_w |-> rear_door_w(w, door_config),
         rear_door_h |-> rear_door_h(h, door_config),
         steel_cuts |-> calculate_steel_cuts(ew, eh, el, fdw, fdh),
         btu_required |-> btu_required(volume),
         estimated_cost |-> estimated_cost(bags),
         generated_date |-> generated_date(now)]

\* the exception round(x) raises for a float x that is not finite
RoundRaises(x) == IF IsNaN(x) THEN "ValueError" ELSE "OverflowError"

\* calculate_forge_specs(user_input) called at minute now with out lines on
\* stdout.  The first round() of a volume that is not finite raises after
\* two debug_log calls.  With a finite volume only the insulation can be
\* other than finite: round(x, 1) and round(x, 2) return inf and nan
\* unchanged, and the first round() to an integer of a value made from
\* ext_w, that of ext_l * ext_w for ifb_floor, raises after five debug_log
\* calls (0 * inf is nan, and ext_l is l + 1.0).  Otherwise six debug_log
\* calls are made and the dictionary is returned.
calculate_forge_specs(ui, now, out) ==
    LET volume == FMul(FMul(ui.width, ui.height), ui.length)
    IN  IF ~IsFinite(volume)
        THEN [raised |-> RoundRaises(volume), specs |-> NoSpecs,
              stdout |-> debug_log(debug_log(out))]
        ELSE IF ~IsFinite(ui.insulation)
        THEN [raised |-> RoundRaises(FMul(Float(external_l(ui.length.m), 0), ui.insulation)),
              specs |-> NoSpecs,
              stdout |-> debug_log(debug_log(debug_log(debug_log(debug_log(out)))))]
        ELSE [raised |-> "none",
              specs |-> specs_dict(ui.width.m, ui.height.m, ui.length.m,
                                   ui.insulation.m, ui.door_config, now),
              stdout |-> debug_log(debug_log(debug_log(debug_log(debug_log(debug_log(out))))))]

\* ----------------------------------------------------------------- actions
\* DEBUG_MODE = False at module level; no call has been made
Init ==
    /\ pc = "ready"
    /\ DEBUG_MODE = FALSE
    /\ clock = 0
    /\ user_input \in Inputs
    /\ specs = NoSpecs
    /\ first = NoSpecs
    /\ raised = "none"
    /\ stdout = 0
    /\ args = NoArgs
    /\ entered = NoLocals
    /\ warnings = << >>
    /\ console = << >>
    /\ exit_status = Running
    /\ json_file = NoFile
    /\ pdf_file = NoFile

\* one call of calculate_forge_specs(user_input); first keeps the record
\* the call before returned
Calculate ==
    /\ pc = "ready"
    /\ LET r == calculate_forge_specs(user_input, clock, 0)
       IN  /\ raised' = r.raised
           /\ stdout' = r.stdout
           /\ specs' = r.specs
           /\ first' = specs
           /\ pc' = IF r.raised = "none" THEN "returned" ELSE "raised"
    /\ UNCHANGED <<DEBUG_MODE, clock, user_input>>
    /\ UNCHANGED main_vars

\* the caller prepares a second call for the same chamber: it may choose
\* another door configuration and set DEBUG_MODE (main: DEBUG_MODE = args.debug)
NextCall ==
    /\ pc = "returned"
    /\ first = NoSpecs
    /\ \E d \in DoorConfigs, dbg \in BOOLEAN :
          /\ user_input' = [user_input EXCEPT !.door_config = d]
          /\ DEBUG_MODE' = dbg
    /\ pc' = "ready"
    /\ UNCHANGED <<clock, specs, first, raised, stdout>>
    /\ UNCHANGED main_vars

\* the wall clock reaches the next minute
Tick ==
    /\ clock < MaxClock
    /\ pc = "returned"
    /\ first = NoSpecs
    /\ clock' = clock + 1
    /\ UNCHANGED <<pc, DEBUG_MODE, user_input, specs, first, raised, stdout>>
    /\ UNCHANGED main_vars

Next == Calculate \/ NextCall \/ Tick

Spec == Init /\ [][Next]_vars

\* ---------------------------------------------------------- get_user_input
\* the defaults of the prompts: float(input(...) or 6) and so on; the
\* insulation default of 2" is 4 half inches
DefaultWidth == 6
DefaultHeight == 6
DefaultLength == 14
DefaultInsulation == 4
DefaultDoorConfig == 1

\* (lo, hi) of the typical ranges; insulation (1.0, 3.0) in half inches
VALID_WIDTH_RANGE == <<3, 12>>
VALID_HEIGHT_RANGE == <<3, 12>>
VALID_LENGTH_RANGE == <<6, 48>>
VALID_INSULATION_RANGE == <<2, 6>>

\* what the user does at a prompt: press Enter, type a text that is not a
\* number, press Ctrl-C, close stdin, or type a number
Enter == [kind |-> "empty", value |-> ""]
Word == [kind |-> "word", value |-> "abc"]
CtrlC == [kind |-> "interrupt", value |-> ""]
CtrlD == [kind |-> "eof", value |-> ""]
Typed(x) == [kind |-> "typed", value |-> x]

\* float() accepts every decimal and also "nan" and "inf"
TypedFloats == {Float(n, 0) : n \in -1..MaxTyped} \cup {NaN, Inf}

FloatAnswers == {Enter, Word, CtrlC, CtrlD} \cup {Typed(x) : x \in TypedFloats}

\* int() accepts every integer, the menu entries or not
DoorAnswers == {Enter, Word, CtrlC, CtrlD} \cup {Typed(d) : d \in 0..(MaxDoorConfig + 1)}

ProceedAnswers == {Enter, CtrlC, CtrlD} \cup {Typed(t) : t \in {"y", "Y", "n", "yes"}}

Lower_as_typed(t) == t

\* str.lower() on the answers above
Lower(t) == IF t = "Y" THEN "y" ELSE t

\* input(prompt): EOFError at end of input, KeyboardInterrupt at Ctrl-C
input(a) ==
    IF a.kind = "eof" THEN [raised |-> "EOFError", value |-> ""]
    ELSE IF a.kind = "interrupt" THEN [raised |-> "KeyboardInterrupt", value |-> ""]
    ELSE [raised |-> "none", value |-> a]

\* float(input(...) or default) and int(input(...) or default): the empty
\* string is falsy, a text that is not a number raises ValueError
Convert(a, default) ==
    LET r == input(a)
    IN  IF r.raised # "none" THEN [raised |-> r.raised, value |-> default]
        ELSE IF a.kind = "empty" THEN [raised |-> "none", value |-> default]
        ELSE IF a.kind = "word" THEN [raised |-> "ValueError", value |-> default]
        ELSE [raised |-> "none", value |-> a.value]

OutsideRange_exclusive(x, range, name) ==
    IF FBetween(range[1] + 1, x, range[2] - 1) THEN << >> ELSE <<name>>

\* `not (lo <= x <= hi)` adds one warning
OutsideRange(x, range, name) == IF FBetween(range[1], x, range[2]) THEN << >> ELSE <<name>>

\* validate_inputs(width, height, length, insulation): the list of warnings,
\* and stdout after its debug_log call
validate_inputs(width, height, length, insulation, out) ==
    LET volume == FMul(FMul(width, height), length)
    IN  [warnings |-> OutsideRange(width, VALID_WIDTH_RANGE, "Width")
                        \o OutsideRange(height, VALID_HEIGHT_RANGE, "Height")
                        \o OutsideRange(length, VALID_LENGTH_RANGE, "Length")
                        \o OutsideRange(insulation, VALID_INSULATION_RANGE, "Insulation")
                        \o (IF FLess(volume, 100) THEN <<"Very small chamber">> ELSE << >>)
                        \o (IF FGreater(volume, 2000) THEN <<"Very large chamber">> ELSE << >>),
         stdout |-> debug_log(out)]

ExitOf_always_zero(exception, in_get_user_input) ==
    IF exception = "KeyboardInterrupt"
    THEN [status |-> 0,
          message |-> IF in_get_user_input THEN "Design cancelled." ELSE "Operation cancelled."]
    ELSE [status |-> 0, message |-> "[ERROR]"]

ExitOf_cancels_on_value_error(exception, in_get_user_input) ==
    IF exception = "KeyboardInterrupt" \/ (exception = "ValueError" /\ in_get_user_input)
    THEN [status |-> 0,
          message |-> IF in_get_user_input THEN "Design cancelled." ELSE "Operation cancelled."]
    ELSE [status |-> 1, message |-> "[ERROR]"]

\* the exit of the process an exception leads to.  get_user_input catches
\* ValueError (exit 1) and KeyboardInterrupt (exit 0); sys.exit raises
\* SystemExit, which main's `except Exception` lets through; every other
\* exception reaches main's handlers: KeyboardInterrupt exit 0, Exception
\* exit 1.
ExitOf(exception, in_get_user_input) ==
    IF exception = "KeyboardInterrupt"
    THEN [status |-> 0,
          message |-> IF in_get_user_input THEN "Design cancelled." ELSE "Operation cancelled."]
    ELSE IF exception = "ValueError" /\ in_get_user_input
    THEN [status |-> 1, message |-> "[ERROR] Invalid input. Please enter numbers only."]
    ELSE [status |-> 1, message |-> "[ERROR]"]

\* ------------------------------------------------------------- JSON export
\* A Python value is held with its type: the record of the calculator above
\* keeps only the numbers, and which of them are float, int and str is
\* decided by the lines that compute them.
PyFloat(v) == [t |-> "float", v |-> v]
PyInt(v) == [t |-> "int", v |-> v]
PyStr(v) == [t |-> "str", v |-> v]
PyList(items) == [t |-> "list", v |-> items]
PyDict(keys, values) == [t |-> "dict", k |-> keys, v |-> values]

\* the keys of specs in the order of the dictionary display
SpecsKeys ==
    <<"internal_w", "internal_h", "internal_l", "insulation", "door_config",
      "internal_volume", "external_w", "external_h", "external_l",
      "burner_holes", "holes_per_row", "burner_rows", "burner_length", "burner_width",
      "cfm_required", "cfm_recommended", "static_pressure",
      "refractory_bags", "refractory_weight", "blanket_sqft", "ifb_floor", "ifb_doors",
      "front_door_w", "front_door_h", "rear_door_w", "rear_door_h",
      "steel_cuts", "btu_required", "estimated_cost", "generated_date">>

\* float(input()), sums and products of floats, round(x, n) and 3.0
FloatKeys ==
    {"internal_w", "internal_h", "internal_l", "insulation", "internal_volume",
     "external_w", "external_h", "external_l", "burner_length", "burner_width",
     "refractory_bags", "refractory_weight", "blanket_sqft",
     "front_door_w", "front_door_h", "estimated_cost", "w", "h", "length"}

\* string literals and f-strings
StrKeys == {"static_pressure", "name", "thickness", "note", "size"}

py_generated_date_unformatted(date) == [t |-> "datetime", v |-> date]

\* datetime.now().strftime("%Y-%m-%d %H:%M") is a str
py_generated_date(date) == PyStr(date)

\* one entry of a cut list: a dictionary with the keys it was written with
py_cut(cut, keys) ==
    PyDict(keys, [i \in DOMAIN keys |->
                    IF keys[i] \in FloatKeys THEN PyFloat(cut[keys[i]])
                    ELSE IF keys[i] \in StrKeys THEN PyStr(cut[keys[i]])
                    ELSE PyInt(cut[keys[i]])])

PlateKeys(cut) ==
    <<"name", "qty", "w", "h", "thickness">>
        \o (IF "note" \in DOMAIN cut THEN <<"note">> ELSE << >>)

py_steel_cuts(cuts) ==
    PyDict(<<"plates", "angle_iron">>,
           <<PyList([i \in DOMAIN cuts.plates |->
                        py_cut(cuts.plates[i], PlateKeys(cuts.plates[i]))]),
             PyList([i \in DOMAIN cuts.angle_iron |->
                        py_cut(cuts.angle_iron[i], <<"name", "qty", "length", "size">>)])>>)

\* rear_door_w and rear_door_h are round(x, 1) for front and rear doors and
\* the int 0 otherwise; round(x), int(x), max of ints and the int constants
\* are int
py_field(s, key) ==
    IF key = "steel_cuts" THEN py_steel_cuts(s.steel_cuts)
    ELSE IF key = "generated_date" THEN py_generated_date(s.generated_date)
    ELSE IF key \in {"rear_door_w", "rear_door_h"}
    THEN (IF s.door_config = 2 THEN PyFloat(s[key]) ELSE PyInt(s[key]))
    ELSE IF key \in FloatKeys THEN PyFloat(s[key])
    ELSE IF key \in StrKeys THEN PyStr(s[key])
    ELSE PyInt(s[key])

\* the dictionary calculate_forge_specs returns, as a Python value
py_specs(s) == PyDict(SpecsKeys, [i \in DOMAIN SpecsKeys |-> py_field(s, SpecsKeys[i])])

\* json.dump(obj, f, indent=2, default=str): a dict is written as an object,
\* a list as an array, a str as a string, an int as digits, a float by its
\* repr, which always has a fraction or an exponent; for any other object
\* default=str is called and its str() is written as a string
RECURSIVE json_dumps(_)
json_dumps(obj) ==
    IF obj.t = "dict"
    THEN [j |-> "object", k |-> obj.k, v |-> [i \in DOMAIN obj.v |-> json_dumps(obj.v[i])]]
    ELSE IF obj.t = "list"
    THEN [j |-> "array", v |-> [i \in DOMAIN obj.v |-> json_dumps(obj.v[i])]]
    ELSE IF obj.t = "str" THEN [j |-> "string", v |-> obj.v]
    ELSE IF obj.t = "int" THEN [j |-> "number", v |-> obj.v, fraction |-> FALSE]
    ELSE IF obj.t = "float" THEN [j |-> "number", v |-> obj.v, fraction |-> TRUE]
    ELSE [j |-> "string", v |-> obj.v]

\* json.load: a number with a fraction or an exponent is a float, any other
\* number an int
RECURSIVE json_loads(_)
json_loads(doc) ==
    IF doc.j = "object"
    THEN PyDict(doc.k, [i \in DOMAIN doc.v |-> json_loads(doc.v[i])])
    ELSE IF doc.j = "array"
    THEN PyList([i \in DOMAIN doc.v |-> json_loads(doc.v[i])])
    ELSE IF doc.j = "string" THEN PyStr(doc.v)
    ELSE IF doc.fraction THEN PyFloat(doc.v)
    ELSE PyInt(doc.v)

\* json.dump has to call default for some value inside obj
RECURSIVE NeedsDefault(_)
NeedsDefault(obj) ==
    IF obj.t \in {"dict", "list"} THEN \E i \in DOMAIN obj.v : NeedsDefault(obj.v[i])
    ELSE obj.t \notin {"str", "int", "float"}

\* ---------------------------------------------------------------- renderer
\* the rows of the plate table: cut.get('note', '—') reads the note or
\* takes the dash, and leaves cut as it is
plate_data(s) ==
    [i \in DOMAIN s.steel_cuts.plates |->
        LET cut == s.steel_cuts.plates[i]
        IN  <<cut.name, cut.qty, cut.w, cut.h,
              IF "note" \in DOMAIN cut THEN cut.note ELSE door_note(0, 0)>>]

\* draw_forge_body_isometric: scale = min(12, 120 / max(w, h), 80 / l) with
\* l = specs['external_l']; max(w, h) is never 0, external_w and external_h
\* being odd numbers of half inches
draw_forge_body_isometric(s) ==
    IF s.external_l = 0 THEN "ZeroDivisionError" ELSE "none"

build_pdf_fills_notes(s) ==
    [raised |-> draw_forge_body_isometric(s),
     filename |-> s.internal_volume,
     plate_data |-> plate_data(s),
     specs |-> [s EXCEPT !.steel_cuts.plates =
                    [i \in DOMAIN @ |->
                        IF "note" \in DOMAIN @[i] THEN @[i]
                        ELSE @[i] @@ [note |-> door_note(0, 0)]]]]

\* build_pdf(specs): the file name Forge_Build_Guide_<int(volume)>ci.pdf,
\* the exception of the drawing if there is one, the rows read from the cut
\* list, and specs as the call leaves it: every use of specs is a read
build_pdf(s) ==
    [raised |-> draw_forge_body_isometric(s),
     filename |-> s.internal_volume,
     plate_data |-> plate_data(s),
     specs |-> s]

\* -------------------------------------------------------------------- main
\* the process ends with this status after printing this message
Exit(e) ==
    /\ pc' = "exited"
    /\ exit_status' = e.status
    /\ console' = Append(console, e.message)

\* python ForgeDesigner.py [--debug] [--json] is started
InitMain ==
    /\ pc = "start"
    /\ DEBUG_MODE = FALSE
    /\ clock = 0
    /\ user_input = NoInput
    /\ specs = NoSpecs
    /\ first = NoSpecs
    /\ raised = "none"
    /\ stdout = 0
    /\ args = NoArgs
    /\ entered = NoLocals
    /\ warnings = << >>
    /\ console = << >>
    /\ exit_status = Running
    /\ json_file = NoFile
    /\ pdf_file = NoFile

\* main up to the first prompt: parse_args, DEBUG_MODE = args.debug, the
\* debug banner, print_header
ParseArgs ==
    /\ pc = "start"
    /\ \E debug \in BOOLEAN, json \in BOOLEAN :
          /\ args' = [debug |-> debug, json |-> json]
          /\ DEBUG_MODE' = debug
          /\ console' = (IF debug THEN <<"[DEBUG MODE ENABLED]">> ELSE << >>) \o <<"header">>
    /\ pc' = "width"
    /\ UNCHANGED <<clock, user_input, specs, first, raised, stdout,
                   entered, warnings, exit_status, json_file, pdf_file>>

\* return {'width': width, ..., 'door_config': door_config}
ReturnedDict(locals) ==
    [k \in {"width", "height", "length", "insulation", "door_config"} |-> locals[k]]

\* one float prompt of get_user_input: the local variable named field is
\* bound and the next prompt is shown, or the exception ends the process
FloatPrompt(field, default, next) ==
    /\ pc = field
    /\ \E a \in FloatAnswers :
          LET r == Convert(a, Float(default, 0))
          IN  IF r.raised = "none"
              THEN /\ entered' = entered @@ (field :> r.value)
                   /\ pc' = next
                   /\ UNCHANGED <<raised, exit_status, console>>
              ELSE /\ raised' = r.raised
                   /\ Exit(ExitOf(r.raised, TRUE))
                   /\ UNCHANGED entered
    /\ UNCHANGED <<DEBUG_MODE, clock, user_input, specs, first, stdout,
                   args, warnings, json_file, pdf_file>>

InputWidth == FloatPrompt("width", DefaultWidth, "height")

InputHeight == FloatPrompt("height", DefaultHeight, "length")

InputLength == FloatPrompt("length", DefaultLength, "insulation")

InputInsulation == FloatPrompt("insulation", DefaultInsulation, "door_config")

\* the door prompt and what follows it without waiting: validate_inputs, and
\* either the warnings and the proceed prompt or the return of the dictionary
InputDoorConfig ==
    /\ pc = "door_config"
    /\ \E a \in DoorAnswers :
          LET r == Convert(a, DefaultDoorConfig)
              e == entered @@ ("door_config" :> r.value)
              v == validate_inputs(e.width, e.height, e.length, e.insulation, stdout)
          IN  IF r.raised # "none"
              THEN /\ raised' = r.raised
                   /\ Exit(ExitOf(r.raised, TRUE))
                   /\ UNCHANGED <<entered, warnings, stdout, user_input>>
              ELSE /\ entered' = e
                   /\ warnings' = v.warnings
                   /\ stdout' = v.stdout
                   /\ IF v.warnings # << >>
                      THEN /\ console' = Append(console, "[!] WARNINGS:")
                           /\ pc' = "proceed"
                           /\ UNCHANGED user_input
                      ELSE /\ user_input' = ReturnedDict(e)
                           /\ pc' = "calculate"
                           /\ UNCHANGED console
                   /\ UNCHANGED <<raised, exit_status>>
    /\ UNCHANGED <<DEBUG_MODE, clock, specs, first, args, json_file, pdf_file>>

\* proceed = input(...) or "y"; anything whose lower() is not "y" is
\* sys.exit(0), otherwise the dictionary of the entered values is returned
InputProceed ==
    /\ pc = "proceed"
    /\ \E a \in ProceedAnswers :
          LET r == input(a)
              proceed == IF a.kind = "empty" THEN "y" ELSE a.value
          IN  IF r.raised # "none"
              THEN /\ raised' = r.raised
                   /\ Exit(ExitOf(r.raised, TRUE))
                   /\ UNCHANGED <<entered, user_input>>
              ELSE /\ entered' = entered @@ ("proceed" :> proceed)
                   /\ IF Lower(proceed) # "y"
                      THEN /\ Exit([status |-> 0, message |-> "Design cancelled."])
                           /\ UNCHANGED <<raised, user_input>>
                      ELSE /\ user_input' = ReturnedDict(entered)
                           /\ pc' = "calculate"
                           /\ UNCHANGED <<raised, exit_status, console>>
    /\ UNCHANGED <<DEBUG_MODE, clock, specs, first, stdout, args, warnings,
                   json_file, pdf_file>>

AfterSummary_always_exports(a) == "export"

\* `if args.json:` after the summary: the export is next, or build_pdf
AfterSummary(a) == IF a.json THEN "export" ELSE "build_pdf"

\* main from the return of get_user_input to the first file: debug_log of
\* the input, calculate_forge_specs, and the summary, which reads specs
MainCalculate ==
    /\ pc = "calculate"
    /\ LET r == calculate_forge_specs(user_input, clock, debug_log(stdout))
       IN  /\ stdout' = r.stdout
           /\ raised' = r.raised
           /\ IF r.raised = "none"
              THEN /\ specs' = r.specs
                   /\ console' = console \o <<"[*] Calculating", "FORGE DESIGN SUMMARY">>
                   /\ pc' = AfterSummary(args)
                   /\ UNCHANGED exit_status
              ELSE /\ pc' = "exited"
                   /\ exit_status' = ExitOf(r.raised, FALSE).status
                   /\ console' = console \o <<"[*] Calculating", ExitOf(r.raised, FALSE).message>>
                   /\ UNCHANGED specs
    /\ UNCHANGED <<DEBUG_MODE, clock, user_input, first, args, entered, warnings,
                   json_file, pdf_file>>

\* what happens while a file is written: it is written, open() or write()
\* raises OSError, or the user presses Ctrl-C
FileEvents == {"none", "OSError", "KeyboardInterrupt"}

\* if args.json: open(json_file, 'w') and json.dump(specs, ...)
ExportJson ==
    /\ pc = "export"
    /\ \E event \in FileEvents :
          IF event = "none"
          THEN /\ json_file' = [name |-> specs.internal_volume,
                                doc |-> json_dumps(py_specs(specs))]
               /\ console' = Append(console, "[*] Specs exported")
               /\ pc' = "build_pdf"
               /\ UNCHANGED <<raised, exit_status>>
          ELSE /\ raised' = event
               /\ Exit(ExitOf(event, FALSE))
               /\ UNCHANGED json_file
    /\ UNCHANGED <<DEBUG_MODE, clock, user_input, specs, first, stdout, args, entered,
                   warnings, pdf_file>>

\* pdf_file = build_pdf(specs), the success message, and the end of main
BuildPdf ==
    /\ pc = "build_pdf"
    /\ \E event \in FileEvents :
          LET r == build_pdf(specs)
              exception == IF r.raised # "none" THEN r.raised ELSE event
          IN  /\ specs' = r.specs
              /\ raised' = exception
              /\ pc' = "exited"
              /\ IF exception = "none"
                 THEN /\ pdf_file' = [name |-> r.filename, plate_data |-> r.plate_data]
                      /\ console' = console \o <<"[*] Generating PDF", "[SUCCESS]">>
                      /\ exit_status' = 0
                 ELSE /\ exit_status' = ExitOf(exception, FALSE).status
                      /\ console' = console \o <<"[*] Generating PDF",
                                                 ExitOf(exception, FALSE).message>>
                      /\ UNCHANGED pdf_file
    /\ UNCHANGED <<DEBUG_MODE, clock, user_input, first, stdout, args, entered, warnings,
                   json_file>>

NextMain ==
    \/ ParseArgs
    \/ InputWidth
    \/ InputHeight
    \/ InputLength
    \/ InputInsulation
    \/ InputDoorConfig
    \/ InputProceed
    \/ MainCalculate
    \/ ExportJson
    \/ BuildPdf

SpecMain == InitMain /\ [][NextMain]_vars

\* ------------------------------------------------- two chambers, two calls
\* calculate_forge_specs called for one chamber and then for another one:
\* every width and height, a short, a middle and the longest length, the
\* thinnest and the thickest insulation
SizingLengths == {1, 9, MaxLength}

SizingInsulations == {1, MaxInsulation}

SizingInputs ==
    {[width |-> Float(w, 0), height |-> Float(h, 0), length |-> Float(l, 0),
      insulation |-> Float(i, 0), door_config |-> 1] :
        w \in Widths, h \in Heights, l \in SizingLengths, i \in SizingInsulations}

InitSizing ==
    /\ pc = "ready"
    /\ DEBUG_MODE = FALSE
    /\ clock = 0
    /\ user_input \in SizingInputs
    /\ specs = NoSpecs
    /\ first = NoSpecs
    /\ raised = "none"
    /\ stdout = 0
    /\ args = NoArgs
    /\ entered = NoLocals
    /\ warnings = << >>
    /\ console = << >>
    /\ exit_status = Running
    /\ json_file = NoFile
    /\ pdf_file = NoFile

\* the caller prepares a second call, for any chamber
OtherChamber ==
    /\ pc = "returned"
    /\ first = NoSpecs
    /\ user_input' \in SizingInputs
    /\ pc' = "ready"
    /\ UNCHANGED <<DEBUG_MODE, clock, specs, first, raised, stdout>>
    /\ UNCHANGED main_vars

NextSizing == Calculate \/ OtherChamber

SpecSizing == InitSizing /\ [][NextSizing]_vars

\* ------------------------------- New_Forge_Build_Generator.get_forge_specs
ext_w_with_frame(w, ins) == 2 * w + 2 * ins + 3

\* w + (ins * 2), in half inches: the legacy envelope has no plate allowance
ext_w(w, ins) == 2 * w + 2 * ins

\* h + (ins * 2), in half inches
ext_h(h, ins) == 2 * h + 2 * ins

\* l + 1.0, in half inches
ext_l(l) == 2 * l + 2

\* the legacy calculator on the four numbers its prompts returned; the
\* units are those of calculate_forge_specs (b_len and bags in tenths, cost
\* in cents, refr_ci in eighths of a cubic inch)
get_forge_specs(w, h, l, ins) ==
    LET vol == w * h * l
        holes_target == Max(12, Round(vol, 18))
        h_per_row == Round(holes_target, 3)
        b_len == Round(h_per_row * 75 + 150, 10)
        refr_ci == ext_w(w, ins) * ext_h(h, ins) * ext_l(l) - 8 * vol
        legacy_bags == RoundErr(refr_ci * 92 * 10, WeightDen * 55, Div55Err(refr_ci * 92))
    IN  [w |-> w, h |-> h, l |-> l, vol |-> vol, ins |-> ins,
         ext_w |-> ext_w(w, ins), ext_h |-> ext_h(h, ins), ext_l |-> ext_l(l),
         holes |-> h_per_row * 3, h_per_row |-> h_per_row, b_len |-> b_len,
         cfm |-> Round(vol * 12, 18 * 10),
         sp |-> IF vol < 500 THEN "1.5" ELSE "3.0",
         bags |-> legacy_bags,
         cost |-> Round((legacy_bags * 110 + 250 * 10) * 100, 10)]

\* the same four numbers are given to both calculators: every sign of
\* width and height, which neither script rejects
LegacyInputs ==
    {[width |-> Float(w, 0), height |-> Float(h, 0), length |-> Float(l, 0),
      insulation |-> Float(i, 0), door_config |-> DefaultDoorConfig] :
        w \in (-MaxWidth)..MaxWidth, h \in (-MaxHeight)..MaxHeight,
        l \in Lengths, i \in Insulations}

InitLegacy ==
    /\ pc = "legacy"
    /\ DEBUG_MODE = FALSE
    /\ clock = 0
    /\ user_input \in LegacyInputs
    /\ specs = NoSpecs
    /\ first = NoSpecs
    /\ raised = "none"
    /\ stdout = 0
    /\ args = NoArgs
    /\ entered = NoLocals
    /\ warnings = << >>
    /\ console = << >>
    /\ exit_status = Running
    /\ json_file = NoFile
    /\ pdf_file = NoFile

\* the legacy script computes its record; calculate_forge_specs is called
\* next with the same numbers, and first then keeps the legacy record
GetForgeSpecs ==
    /\ pc = "legacy"
    /\ specs' = get_forge_specs(user_input.width.m, user_input.height.m,
                                user_input.length.m, user_input.insulation.m)
    /\ pc' = "ready"
    /\ UNCHANGED <<DEBUG_MODE, clock, user_input, first, raised, stdout>>
    /\ UNCHANGED main_vars

NextLegacy == GetForgeSpecs \/ Calculate

SpecLegacy == InitLegacy /\ [][NextLegacy]_vars

\* --------------------------------------------------------- validate_inputs
\* validate_inputs called on its own: arguments at and around the ends of
\* the typical ranges, small and large volumes, nan and inf
CheckedDims == {Float(n, 0) : n \in {0, 2, 3, 5, 10, 12, 13}} \cup {NaN, Inf}

CheckedLengths == {Float(n, 0) : n \in {4, 5, 6, 14, 20, 48, 49}} \cup {NaN}

CheckedInsulations == {Float(n, 0) : n \in {1, 2, 6, 7}} \cup {NaN}

InitValidate ==
    /\ pc = "validate"
    /\ DEBUG_MODE \in BOOLEAN
    /\ clock = 0
    /\ user_input = NoInput
    /\ specs = NoSpecs
    /\ first = NoSpecs
    /\ raised = "none"
    /\ stdout = 0
    /\ args = NoArgs
    /\ entered \in [width : CheckedDims, height : CheckedDims, length : CheckedLengths,
                     insulation : CheckedInsulations]
    /\ warnings = << >>
    /\ console = << >>
    /\ exit_status = Running
    /\ json_file = NoFile
    /\ pdf_file = NoFile

\* warnings = validate_inputs(width, height, length, insulation)
Validate ==
    /\ pc = "validate"
    /\ LET v == validate_inputs(entered.width, entered.height, entered.length,
                                entered.insulation, stdout)
       IN  /\ warnings' = v.warnings
           /\ stdout' = v.stdout
    /\ pc' = "validated"
    /\ UNCHANGED <<DEBUG_MODE, clock, user_input, specs, first, raised,
                   args, entered, console, exit_status, json_file, pdf_file>>

NextValidate == Validate

SpecValidate == InitValidate /\ [][NextValidate]_vars

\* ------------------------------------------------------------------ claims
Returned == pc = "returned"

\* both calls of the run have returned
BothReturned == pc = "returned" /\ first # NoSpecs

Abs(x) == IF x < 0 THEN -x ELSE x

\* x is the integer nearest to n / d, the even one at a tie
NearestEven(x, n, d) ==
    /\ 2 * Abs(x * d - n) <= d
    /\ (2 * Abs(x * d - n) = d => x % 2 = 0)

\* the record s without the fields named in keys
Without(s, keys) == [k \in (DOMAIN s) \ keys |-> s[k]]

\* C1: every record returned has a burner_holes that is divisible by 3 and
\* is at least 12.
C1_BurnerHolesDivisible ==
    Returned => specs.burner_holes % 3 = 0 /\ specs.burner_holes >= 12

\* a chamber below 12 * 18 cubic inches, where the minimum decides
C1_Witness ==
    Returned /\ specs.internal_volume < 100 /\ specs.burner_holes = 12

\* C2: static_pressure is "1.5" exactly when internal_volume < 500 and "3.0"
\* otherwise, so a volume of exactly 500 and the volume 504 give "3.0".
C2_StaticPressureStep ==
    Returned =>
        /\ specs.static_pressure \in {"1.5", "3.0"}
        /\ (specs.static_pressure = "1.5") = (specs.internal_volume < 500)
        /\ (specs.internal_volume \in {500, 504} => specs.static_pressure = "3.0")

C2_Witness ==
    Returned /\ specs.internal_volume = 500 /\ specs.static_pressure = "3.0"

\* C3: cfm_required is the integer nearest to internal_volume / 18 * 1.2
\* (= internal_volume / 15), whatever the hole count is, and cfm_recommended
\* is the integer nearest to cfm_required * 1.25 (= 5/4), both with Python's
\* ties to even.
C3_CfmFromRawRatio ==
    Returned =>
        /\ NearestEven(specs.cfm_required, specs.internal_volume, 15)
        /\ NearestEven(specs.cfm_recommended, 5 * specs.cfm_required, 4)

\* the 12-hole minimum applies (12 holes would give 14 CFM) and
\* cfm_required * 1.25 is a tie
C3_Witness ==
    /\ Returned
    /\ specs.burner_holes = 12
    /\ specs.internal_volume < 12 * HOLE_COVERAGE_CI - 9
    /\ specs.cfm_required = 6
    /\ specs.cfm_recommended = 8

\* C4: rear_door_w and rear_door_h are 0 unless door_config is 2; with
\* door_config 2 they are round(width * 0.7, 1) and round(height * 0.75, 1).
C4_RearDoor ==
    Returned =>
        IF specs.door_config = 2
        THEN /\ specs.rear_door_w = 7 * specs.internal_w
             /\ NearestEven(specs.rear_door_h, 75 * specs.internal_h, 10)
        ELSE specs.rear_door_w = 0 /\ specs.rear_door_h = 0

\* a front-and-rear call (height 3: 2.25 rounds to 2.2) followed by a
\* side-loading call for the same chamber
C4_Witness ==
    /\ BothReturned
    /\ first.door_config = 2 /\ first.internal_h = 3 /\ first.rear_door_h = 22
    /\ first.rear_door_w > 0
    /\ specs.door_config = 3 /\ specs.rear_door_w = 0 /\ specs.rear_door_h = 0

C6_Deterministic ==
    (BothReturned /\ first.door_config = specs.door_config) =>
        Without(first, {"generated_date"}) = Without(specs, {"generated_date"})

\* the second call ran a minute later with DEBUG_MODE set (six debug lines)
C6_Witness ==
    /\ BothReturned
    /\ first.door_config = specs.door_config
    /\ first.generated_date # specs.generated_date
    /\ DEBUG_MODE /\ stdout = 6

DocumentedFields ==
    {"internal_w", "internal_h", "internal_l", "insulation", "door_config",
     "internal_volume", "external_w", "external_h", "external_l",
     "burner_holes", "holes_per_row", "burner_rows", "burner_length", "burner_width",
     "cfm_required", "cfm_recommended", "static_pressure",
     "refractory_bags", "refractory_weight", "blanket_sqft", "ifb_floor", "ifb_doors",
     "front_door_w", "front_door_h", "rear_door_w", "rear_door_h",
     "steel_cuts", "btu_required", "estimated_cost", "generated_date"}

\* C7: for finite positive numeric fields and an enumerated door_config the
\* call raises no exception and returns a record with every documented field.
C7_Total ==
    /\ raised = "none"
    /\ pc # "raised"
    /\ Returned => DocumentedFields \subseteq DOMAIN specs

IsScenarioA(s) ==
    /\ s.internal_w = 6 /\ s.internal_h = 6 /\ s.internal_l = 14
    /\ s.insulation = 4 /\ s.door_config = 1

\* C8 as claimed: scenario A returns internal_volume 504, holes_per_row 9,
\* burner_holes 27 and burner_length 8.3.
C8_AsClaimed ==
    (Returned /\ IsScenarioA(specs)) =>
        /\ specs.internal_volume = 504 /\ specs.holes_per_row = 9
        /\ specs.burner_holes = 27 /\ specs.burner_length = 83

\* C8 amended: scenario A returns internal_volume 504, holes_per_row 9,
\* burner_holes 27 and burner_length 8.2 (8.25 is a tie, and ties go to even).
C8_ScenarioABurner ==
    (Returned /\ IsScenarioA(specs)) =>
        /\ specs.internal_volume = 504 /\ specs.holes_per_row = 9
        /\ specs.burner_holes = 27 /\ specs.burner_length = 82

C8_Witness ==
    Returned /\ IsScenarioA(specs) /\ specs.burner_holes = 27 /\ first = NoSpecs

\* C9 as claimed: scenario A returns cfm_required 34 and cfm_recommended 43.
C9_AsClaimed ==
    (Returned /\ IsScenarioA(specs)) =>
        specs.cfm_required = 34 /\ specs.cfm_recommended = 43

\* C9 amended: scenario A returns cfm_required 34 and cfm_recommended 42
\* (42.5 is a tie, and ties go to even).
C9_ScenarioACfm ==
    (Returned /\ IsScenarioA(specs)) =>
        specs.cfm_required = 34 /\ specs.cfm_recommended = 42

C9_Witness ==
    Returned /\ IsScenarioA(specs) /\ specs.cfm_required = 34 /\ DEBUG_MODE

\* a front-only call followed by a front-and-rear call for the same chamber
FrontThenFrontAndRear == BothReturned /\ first.door_config = 1 /\ specs.door_config = 2

\* C10 as claimed: changing door_config from 1 to 2 changes only rear_door_w,
\* rear_door_h and the echoed door_config; for width = height = 6 the rear
\* door is 4.2 by 4.5.
C10_AsClaimed ==
    FrontThenFrontAndRear =>
        /\ Without(first, {"rear_door_w", "rear_door_h", "door_config", "generated_date"})
             = Without(specs, {"rear_door_w", "rear_door_h", "door_config", "generated_date"})
        /\ (specs.internal_w = 6 /\ specs.internal_h = 6 =>
                specs.rear_door_w = 42 /\ specs.rear_door_h = 45)

\* C10 amended: changing door_config from 1 to 2 changes only rear_door_w,
\* rear_door_h, ifb_doors (4 becomes 6) and the echoed door_config; for
\* width = height = 6 the rear door is 4.2 by 4.5.
C10_DoorConfigFrame ==
    FrontThenFrontAndRear =>
        /\ Without(first, {"rear_door_w", "rear_door_h", "ifb_doors", "door_config",
                           "generated_date"})
             = Without(specs, {"rear_door_w", "rear_door_h", "ifb_doors", "door_config",
                               "generated_date"})
        /\ first.ifb_doors = 4 /\ specs.ifb_doors = 6
        /\ first.rear_door_w = 0 /\ first.rear_door_h = 0
        /\ specs.rear_door_w > 0 /\ specs.rear_door_h > 0
        /\ (specs.internal_w = 6 /\ specs.internal_h = 6 =>
                specs.rear_door_w = 42 /\ specs.rear_door_h = 45)

C10_Witness ==
    /\ FrontThenFrontAndRear
    /\ specs.internal_w = 6 /\ specs.internal_h = 6
    /\ specs.rear_door_w = 42 /\ specs.rear_door_h = 45

\* a front-only call followed by a side-loading call for the same chamber
FrontThenSide == BothReturned /\ first.door_config = 1 /\ specs.door_config = 3

\* C11 as claimed: the records returned for door_config 3 and door_config 1
\* are equal in every field except the echoed door_config and generated_date.
C11_AsClaimed ==
    FrontThenSide =>
        Without(first, {"door_config", "generated_date"})
            = Without(specs, {"door_config", "generated_date"})

\* C11 amended: the records returned for door_config 3 and door_config 1 are
\* equal in every field except the echoed door_config, generated_date and
\* ifb_doors, which is 4 for front only and 6 for side loading; both have rear
\* door sizes 0.
C11_SideLoadingAlias ==
    FrontThenSide =>
        /\ Without(first, {"door_config", "generated_date", "ifb_doors"})
             = Without(specs, {"door_config", "generated_date", "ifb_doors"})
        /\ first.ifb_doors = 4 /\ specs.ifb_doors = 6
        /\ first.rear_door_w = 0 /\ first.rear_door_h = 0
        /\ specs.rear_door_w = 0 /\ specs.rear_door_h = 0

C11_Witness ==
    /\ FrontThenSide
    /\ specs.ifb_doors # first.ifb_doors
    /\ specs.steel_cuts = first.steel_cuts
    /\ specs.estimated_cost = first.estimated_cost

\* C18: with target = max(12, round(internal_volume / 18)), burner_holes is
\* 3 * holes_per_row, is within 1 of target, equals target exactly when
\* target is divisible by 3 and differs from it otherwise.
C18_NearestMultiple ==
    Returned =>
        LET target == target_holes(specs.internal_volume)
        IN  /\ specs.burner_holes = 3 * specs.holes_per_row
            /\ Abs(specs.burner_holes - target) <= 1
            /\ (specs.burner_holes = target) = (target % 3 = 0)

\* target 14 (volume 252) re-derived as 15, above the target
C18_Witness ==
    /\ Returned
    /\ specs.internal_volume = 252
    /\ target_holes(specs.internal_volume) = 14
    /\ specs.holes_per_row = 5 /\ specs.burner_holes = 15

\* round(w * 0.85, 1) as Python prints it for w = 1..12, in tenths; 0.85 w is
\* a decimal tie for odd w and the binary64 product decides the side
Python085 == <<8, 17, 25, 34, 42, 51, 60, 68, 76, 85, 93, 102>>

\* C19: front_door_w is round(width * 0.85, 1) and front_door_h is
\* round(height * 0.85, 1), a tenth nearest to 0.85 times the dimension; for
\* width = height = 6 both are 5.1; neither depends on door_config, length
\* or insulation.
C19_FrontDoor ==
    /\ Returned =>
        /\ 2 * Abs(10 * specs.front_door_w - 85 * specs.internal_w) <= 10
        /\ 2 * Abs(10 * specs.front_door_h - 85 * specs.internal_h) <= 10
        /\ specs.front_door_w = Python085[specs.internal_w]
        /\ specs.front_door_h = Python085[specs.internal_h]
        /\ (specs.internal_w = 6 => specs.front_door_w = 51)
        /\ (specs.internal_h = 6 => specs.front_door_h = 51)
    /\ BothReturned =>
        /\ first.front_door_w = specs.front_door_w
        /\ first.front_door_h = specs.front_door_h

\* width 3 (2.55 printed as 2.5) and height 6, seen under two door
\* configurations
C19_Witness ==
    /\ BothReturned
    /\ first.door_config # specs.door_config
    /\ specs.internal_w = 3 /\ specs.front_door_w = 25
    /\ specs.internal_h = 6 /\ specs.front_door_h = 51

\* C20: ifb_doors is 4 when door_config is 1 and 6 for every other door
\* configuration, side loading included; ifb_floor is
\* max(2, round(external_l * external_w / 72)) and is never below 2.
C20_FireBrick ==
    Returned =>
        /\ specs.ifb_doors = (IF specs.door_config = 1 THEN 4 ELSE 6)
        /\ specs.ifb_floor >= 2
        /\ \E x \in 0..specs.ifb_floor :
              /\ NearestEven(x, specs.external_l * specs.external_w, 4 * 72)
              /\ specs.ifb_floor = Max(2, x)

\* a small chamber whose floor rounds to 1 brick and gets 2, after the same
\* chamber with a front door only
C20_Witness ==
    /\ BothReturned
    /\ first.door_config = 1 /\ first.ifb_doors = 4
    /\ specs.door_config = 3 /\ specs.ifb_doors = 6
    /\ 2 * specs.external_l * specs.external_w < 3 * 4 * 72
    /\ specs.ifb_floor = 2

\* a floor of 12.5" by 15" takes 3 bricks
C20_WitnessAbove ==
    Returned /\ specs.ifb_floor = 3 /\ specs.external_w = 25 /\ specs.external_l = 30

\* the prompts of get_user_input that are converted by float() or int()
NumericPrompts == {"width", "height", "length", "insulation", "door_config"}

\* nothing of the run after get_user_input has happened
NothingComputed == specs = NoSpecs /\ json_file = NoFile /\ pdf_file = NoFile

\* C12: in a run of main, a non-numeric value at any numeric prompt of
\* get_user_input (the conversion raises ValueError) ends the run at that
\* step with a nonzero exit status, calculate_forge_specs, the JSON export
\* and build_pdf not having run; and the run takes no step after its exit.
C12_NonNumericAborts ==
    [][/\ (pc \in NumericPrompts /\ raised' = "ValueError") =>
              /\ pc' = "exited"
              /\ exit_status' # 0 /\ exit_status' # Running
              /\ NothingComputed'
       /\ pc # "exited"]_vars

\* a word typed at the door prompt, after four numbers were accepted
C12_Witness ==
    /\ pc = "exited"
    /\ raised = "ValueError"
    /\ DOMAIN entered = {"width", "height", "length", "insulation"}
    /\ exit_status = 1
    /\ NothingComputed

\* the dictionary returned has exactly the values of the locals
ReturnsEntered(dict, locals) ==
    /\ DOMAIN dict = NumericPrompts
    /\ \A k \in NumericPrompts : dict[k] = locals[k]

\* C13 as claimed: at the proceed prompt the answer 'y' or the default
\* returns the entered values unchanged, and any other answer ends the run
\* with exit status 0 with nothing computed or written.
C13_AsClaimed ==
    [][(pc = "proceed" /\ raised' = "none") =>
          IF entered'.proceed = "y"
          THEN pc' = "calculate" /\ ReturnsEntered(user_input', entered)
          ELSE pc' = "exited" /\ exit_status' = 0 /\ NothingComputed']_vars

\* C13 amended: when validate_inputs returns warnings they are shown and the
\* proceed prompt follows; the answer 'y' in either case ('y' or 'Y') or the
\* default returns the entered values unchanged and calculate_forge_specs
\* computes with them; any other answer ends the run with exit status 0 with
\* nothing computed or written.
C13_Advisory ==
    [][/\ pc = "proceed" =>
            /\ warnings # << >>
            /\ console[Len(console)] = "[!] WARNINGS:"
            /\ NothingComputed
       /\ (pc = "proceed" /\ raised' = "none") =>
            IF entered'.proceed \in {"y", "Y"}
            THEN pc' = "calculate" /\ ReturnsEntered(user_input', entered)
            ELSE pc' = "exited" /\ exit_status' = 0 /\ NothingComputed'
       /\ (pc = "calculate" /\ raised' = "none") =>
            /\ specs'.internal_w = user_input.width.m
            /\ specs'.internal_h = user_input.height.m
            /\ specs'.internal_l = user_input.length.m
            /\ specs'.insulation = user_input.insulation.m
            /\ specs'.door_config = user_input.door_config]_vars

\* a width of 1" is warned about, the user answers Y, and the guide is
\* built for the width of 1"
C13_Witness ==
    /\ warnings # << >>
    /\ "proceed" \in DOMAIN entered
    /\ entered.proceed = "Y"
    /\ entered.width = Float(1, 0)
    /\ specs # NoSpecs
    /\ specs.internal_w = 1
    /\ pdf_file # NoFile

\* the user answers n and the run ends with status 0
C13_WitnessCancelled ==
    /\ pc = "exited"
    /\ "proceed" \in DOMAIN entered
    /\ entered.proceed = "n"
    /\ exit_status = 0
    /\ NothingComputed

\* a float that is finite and greater than zero
ValidNumber(x) == IsFinite(x) /\ x.m > 0

\* C14: in no run of main is calculate_forge_specs called with a zero,
\* negative, NaN or infinite width, height, length or insulation: whenever
\* get_user_input has returned and the call is next, the four numbers are
\* finite and positive.
C14_InvalidRejected ==
    pc = "calculate" =>
        /\ ValidNumber(user_input.width)
        /\ ValidNumber(user_input.height)
        /\ ValidNumber(user_input.length)
        /\ ValidNumber(user_input.insulation)

\* C15: the door_config get_user_input passes to calculate_forge_specs is
\* one of the three enumerated values 1, 2 and 3.
C15_DoorEnumerated ==
    pc = "calculate" => user_input.door_config \in {1, 2, 3}

\* C16: the JSON export round-trips: parsing the document written by
\* json.dump(specs, default=str) yields a value equal to specs, key by key
\* and type by type, the nested steel_cuts lists and the generated_date
\* string included, and default=str is not called for any value.
C16_JsonRoundTrip ==
    json_file # NoFile =>
        /\ json_loads(json_file.doc) = py_specs(specs)
        /\ ~NeedsDefault(py_specs(specs))
        /\ json_file.name = specs.internal_volume

\* an export of the default chamber with front and rear doors, whose rear
\* door sizes are floats, followed by the guide
C16_Witness ==
    /\ json_file # NoFile
    /\ pdf_file # NoFile
    /\ warnings = << >>
    /\ specs.door_config = 2
    /\ json_loads(json_file.doc).v[25] = PyFloat(42)
    /\ Len(json_loads(json_file.doc).v[27].v[1].v) = 5

\* C17: once calculate_forge_specs has returned, no step of the run (the
\* summary, the JSON export, build_pdf and the drawings it calls) changes
\* any field of specs, the nested steel_cuts lists included.
C17_ReadOnly ==
    [][specs # NoSpecs => specs' = specs]_vars

\* the export and the guide were written (the plate table shows the note of
\* the front panel and a dash for the rear panel) and the front panel is
\* still the only plate with a note
C17_Witness ==
    /\ pc = "exited"
    /\ json_file # NoFile
    /\ pdf_file # NoFile
    /\ pdf_file.plate_data[4][5] = door_note(specs.front_door_w, specs.front_door_h)
    /\ pdf_file.plate_data[5][5] = door_note(0, 0)
    /\ "note" \notin DOMAIN specs.steel_cuts.plates[5]

\* x is an integer nearest to n / d (either neighbour at a tie)
Nearest(x, n, d) == 2 * Abs(x * d - n) <= d

\* W = ((external_w * external_h * external_l - internal_volume) / 1728) * 92
\* from the fields of the record s, in units of 1 / WeightDen lb
RefractoryW(s) ==
    (s.external_w * s.external_h * s.external_l - 8 * s.internal_volume) * 92

\* C21: with W = ((external_w * external_h * external_l - internal_volume)
\* / 1728) * 92, refractory_bags is W / 55 rounded to one decimal and
\* refractory_weight is W rounded to one decimal, each taken from the
\* unrounded W.
C21_Refractory ==
    Returned =>
        /\ Nearest(specs.refractory_bags, 10 * RefractoryW(specs), 55 * WeightDen)
        /\ NearestEven(specs.refractory_weight, 10 * RefractoryW(specs), WeightDen)

\* scenario A: 1.1 bags and 61.2 lb
C21_Witness ==
    /\ Returned
    /\ IsScenarioA(specs)
    /\ specs.refractory_bags = 11
    /\ specs.refractory_weight = 612

\* C22: estimated_cost is round(250 + refractory_bags * 110, 2) with the
\* refractory_bags stored in the record (already rounded to one decimal),
\* btu_required is round(internal_volume * 450), and neither depends on
\* door_config.
C22_CostAndBtu ==
    /\ Returned =>
        /\ specs.estimated_cost = 25000 + 1100 * specs.refractory_bags
        /\ specs.btu_required = 450 * specs.internal_volume
    /\ BothReturned =>
        /\ first.estimated_cost = specs.estimated_cost
        /\ first.btu_required = specs.btu_required

\* 6 x 6 x 14 with 2" of insulation under two door configurations: 1.1 bags
\* cost $371.00 (the unrounded 1.11 bags would cost $372.39)
C22_Witness ==
    /\ BothReturned
    /\ first.door_config # specs.door_config
    /\ specs.internal_volume = 504 /\ specs.insulation = 4
    /\ specs.refractory_bags = 11
    /\ 2 * RefractoryW(specs) > 122 * WeightDen
    /\ specs.estimated_cost = 37100
    /\ specs.btu_required = 226800

\* one entry of the plate list, without its note
Plate(name, qty, w, h) == [name |-> name, qty |-> qty, w |-> w, h |-> h, thickness |-> "1/4"]

\* C23: the plates are Side Panels (qty 2, external_l by external_h), Top
\* Panel and Bottom Panel (qty 1, external_l by external_w), Front End Panel
\* and Rear End Panel (qty 1, external_w by external_h), six panels in all,
\* each 1/4" thick; only the front panel has a note, which gives
\* front_door_w by front_door_h whatever door_config is; the angle iron is
\* 4 corner posts of external_h, 8 top/bottom rails of external_l - 4 and
\* 8 end rails of external_w - 4 (lengths in half inches here).
C23_CutTemplate ==
    Returned =>
        LET plates == specs.steel_cuts.plates
            angle == specs.steel_cuts.angle_iron
            ew == specs.external_w
            eh == specs.external_h
            el == specs.external_l
        IN  /\ DOMAIN specs.steel_cuts = {"plates", "angle_iron"}
            /\ Len(plates) = 5
            /\ plates[1] = Plate("Side Panels", 2, el, eh)
            /\ plates[2] = Plate("Top Panel", 1, el, ew)
            /\ plates[3] = Plate("Bottom Panel", 1, el, ew)
            /\ Without(plates[4], {"note"}) = Plate("Front End Panel", 1, ew, eh)
            /\ plates[5] = Plate("Rear End Panel", 1, ew, eh)
            /\ plates[1].qty + plates[2].qty + plates[3].qty + plates[4].qty + plates[5].qty = 6
            /\ plates[4].note = [cut_w |-> specs.front_door_w, cut_h |-> specs.front_door_h]
            /\ Len(angle) = 3
            /\ angle[1] = [name |-> "Corner Posts", qty |-> 4, length |-> eh, size |-> "2x2x1/8"]
            /\ angle[2] = [name |-> "Top/Bottom Rails", qty |-> 8, length |-> el - 8,
                           size |-> "2x2x1/8"]
            /\ angle[3] = [name |-> "End Rails", qty |-> 8, length |-> ew - 8, size |-> "2x2x1/8"]

\* front and rear doors: the rear door is 4.2 by 4.5, the note is the front
\* door 5.1 by 5.1 and the rear panel has no note
C23_Witness ==
    /\ Returned
    /\ specs.door_config = 2
    /\ specs.rear_door_w = 42 /\ specs.rear_door_h = 45
    /\ specs.steel_cuts.plates[4].note = [cut_w |-> 51, cut_h |-> 51]
    /\ "note" \notin DOMAIN specs.steel_cuts.plates[5]
    /\ specs.steel_cuts.angle_iron[2].length = specs.external_l - 8

\* get_user_input has not returned
Collecting == pc \in {"start", "proceed"} \cup NumericPrompts

\* the specs record is fully assembled
Assembled == specs # NoSpecs /\ DocumentedFields \subseteq DOMAIN specs

\* C24: calculate_forge_specs starts only after get_user_input, with
\* validate_inputs and any proceed confirmation, has returned; in the record
\* the steel cut list is made from the envelope and the front door size and
\* the cost from the rounded bag count; the JSON export happens only when
\* --json was given and only after the record is assembled; build_pdf starts
\* only after the record is assembled and after the JSON export, if any.
C24_Ordering ==
    /\ [](/\ Collecting => NothingComputed /\ user_input = NoInput
          /\ (pc = "calculate" \/ specs # NoSpecs) =>
                /\ ReturnsEntered(user_input, entered)
                /\ warnings # << >> =>
                      "proceed" \in DOMAIN entered /\ entered.proceed \in {"y", "Y"}
          /\ specs # NoSpecs =>
                /\ Assembled
                /\ specs.steel_cuts.plates[4].w = specs.external_w
                /\ specs.steel_cuts.plates[4].note.cut_w = specs.front_door_w
                /\ specs.estimated_cost = 25000 + 1100 * specs.refractory_bags
          /\ (pc = "export" \/ json_file # NoFile) => args.json /\ Assembled
          /\ (pc = "build_pdf" \/ pdf_file # NoFile) =>
                Assembled /\ (args.json => json_file # NoFile))
    /\ [][/\ pc' = "calculate" => pc \in {"door_config", "proceed"}
          /\ pc' = "export" => pc = "calculate"
          /\ pc' = "build_pdf" => pc = (IF args.json THEN "export" ELSE "calculate")
          /\ specs' # specs => pc = "calculate"
          /\ json_file' # json_file => pc = "export"
          /\ pdf_file' # pdf_file => pc = "build_pdf"]_vars

\* a run with --json that was warned, confirmed, exported and built
C24_Witness ==
    /\ pc = "exited"
    /\ args.json
    /\ warnings # << >>
    /\ "proceed" \in DOMAIN entered
    /\ json_file # NoFile
    /\ pdf_file # NoFile

\* msg was printed
Printed(msg) == \E i \in DOMAIN console : console[i] = msg

\* the three ways a run ends
Succeeded ==
    /\ exit_status = 0
    /\ console[Len(console)] = "[SUCCESS]"
    /\ pdf_file # NoFile

Cancelled ==
    /\ exit_status = 0
    /\ console[Len(console)] \in {"Design cancelled.", "Operation cancelled."}
    /\ ~Printed("[SUCCESS]")
    /\ pdf_file = NoFile

Failed == exit_status = 1 /\ ~Printed("[SUCCESS]")

C25_WitnessSuccess == pc = "exited" /\ Succeeded /\ warnings = << >>

C25_WitnessCancelled == pc = "exited" /\ Cancelled /\ raised = "KeyboardInterrupt" /\ specs # NoSpecs

\* lo <= x <= hi for a float x (nan and inf are in no interval)
Within(x, lo, hi) == IsFinite(x) /\ lo <= x.m /\ x.m <= hi

\* width * height * length is within [lo, hi]
VolumeWithin(e, lo, hi) ==
    /\ IsFinite(e.width) /\ IsFinite(e.height) /\ IsFinite(e.length)
    /\ lo <= e.width.m * e.height.m * e.length.m
    /\ e.width.m * e.height.m * e.length.m <= hi

\* width * height * length is nan
VolumeIsNaN(e) ==
    \/ IsNaN(e.width) \/ IsNaN(e.height) \/ IsNaN(e.length)
    \/ ((IsInf(e.width) \/ IsInf(e.height) \/ IsInf(e.length))
            /\ (e.width.m = 0 \/ e.height.m = 0 \/ e.length.m = 0))

\* the conditions of the recommended ranges that e violates
ViolatedRanges(e) ==
    {c \in {"width", "height", "length", "insulation"} :
        \/ (c = "width" /\ ~Within(e.width, 3, 12))
        \/ (c = "height" /\ ~Within(e.height, 3, 12))
        \/ (c = "length" /\ ~Within(e.length, 6, 48))
        \/ (c = "insulation" /\ ~Within(e.insulation, 2, 6))}

One(b) == IF b THEN 1 ELSE 0

\* C26 as claimed: the list is empty exactly when width and height are in
\* [3, 12], length in [6, 48], insulation in [1.0, 3.0] and the volume in
\* [100, 2000]; each violated condition adds exactly one warning; the values
\* are not changed and nothing is raised.
C26_AsClaimed ==
    /\ [](pc = "validated" =>
            /\ (warnings = << >>) =
                  (ViolatedRanges(entered) = {} /\ VolumeWithin(entered, 100, 2000))
            /\ Len(warnings) = Cardinality(ViolatedRanges(entered))
                                  + One(~VolumeWithin(entered, 100, 2000))
            /\ raised = "none")
    /\ [][entered' = entered]_vars

\* C26 amended: the list is empty exactly when width and height are in
\* [3, 12], length in [6, 48], insulation in [1.0, 3.0] and the volume in
\* [100, 2000]; each violated range adds exactly one warning and a volume
\* below 100 or above 2000 adds exactly one, while a volume that is nan
\* (a nan dimension, or 0 times inf) adds none; the values are not changed
\* and nothing is raised.
C26_ValidateIff ==
    /\ [](pc = "validated" =>
            /\ (warnings = << >>) =
                  (ViolatedRanges(entered) = {} /\ VolumeWithin(entered, 100, 2000))
            /\ Len(warnings) = Cardinality(ViolatedRanges(entered))
                                  + One(~VolumeWithin(entered, 100, 2000)
                                            /\ ~VolumeIsNaN(entered))
            /\ raised = "none")
    /\ [][entered' = entered]_vars

\* 3 x 3 x 6 with 1" of insulation: every range holds at its lower end and
\* the volume of 54 gives the only warning
C26_Witness ==
    /\ pc = "validated"
    /\ entered.width = Float(3, 0) /\ entered.height = Float(3, 0)
    /\ entered.length = Float(6, 0) /\ entered.insulation = Float(2, 0)
    /\ warnings = <<"Very small chamber">>

\* 10 x 10 x 20 with 3" of insulation: volume 2000, no warning
C26_WitnessNoWarning ==
    /\ pc = "validated"
    /\ entered.width = Float(10, 0) /\ entered.height = Float(10, 0)
    /\ entered.length = Float(20, 0) /\ entered.insulation = Float(6, 0)
    /\ warnings = << >>

\* the input of the call is inside the recommended ranges
InsideRanges(ui) ==
    /\ Within(ui.width, 3, 12) /\ Within(ui.height, 3, 12)
    /\ Within(ui.length, 6, 48) /\ Within(ui.insulation, 2, 6)

\* C27: for an input inside the recommended ranges every width and height of
\* the plate list and every length of the angle iron list is strictly
\* positive, the rails of external_l - 4 and external_w - 4 among them.
C27_CutsPositive ==
    (Returned /\ InsideRanges(user_input)) =>
        /\ \A i \in DOMAIN specs.steel_cuts.plates :
              specs.steel_cuts.plates[i].w > 0 /\ specs.steel_cuts.plates[i].h > 0
        /\ \A i \in DOMAIN specs.steel_cuts.angle_iron :
              specs.steel_cuts.angle_iron[i].length > 0
        /\ specs.external_l - 8 > 0
        /\ specs.external_w - 8 > 0

\* 3 x 3 x 6 with 1" of insulation, the smallest recommended forge: rails of
\* 3" (top/bottom) and 1.5" (end)
C27_Witness ==
    /\ Returned /\ InsideRanges(user_input)
    /\ user_input.width.m = 3 /\ user_input.length.m = 6 /\ user_input.insulation.m = 2
    /\ specs.steel_cuts.angle_iron[2].length = 6
    /\ specs.steel_cuts.angle_iron[3].length = 3

\* a positive length of 3" outside the range: top/bottom rails of length 0
C27_WitnessZeroRail ==
    /\ Returned /\ ~InsideRanges(user_input)
    /\ user_input.length.m = 3
    /\ specs.steel_cuts.angle_iron[2].length = 0

\* positive 1 x 1 x 1 with 0.5" of insulation: both rail lengths negative
C27_WitnessNegativeRail ==
    /\ Returned /\ ~InsideRanges(user_input)
    /\ user_input.width.m = 1 /\ user_input.length.m = 1 /\ user_input.insulation.m = 1
    /\ specs.steel_cuts.angle_iron[2].length = -4
    /\ specs.steel_cuts.angle_iron[3].length = -3

\* C28: the front door cutout is smaller than the front panel it is cut
\* from, front_door_w < external_w and front_door_h < external_h, and with
\* front and rear doors the rear door is no larger than the front door in
\* either direction (doors in tenths, external sizes in half inches).
C28_DoorsFit ==
    Returned =>
        /\ specs.front_door_w < specs.external_w * 5
        /\ specs.front_door_h < specs.external_h * 5
        /\ specs.steel_cuts.plates[4].w = specs.external_w
        /\ specs.steel_cuts.plates[4].h = specs.external_h
        /\ specs.door_config = 2 =>
              /\ specs.rear_door_w <= specs.front_door_w
              /\ specs.rear_door_h <= specs.front_door_h

\* front and rear doors on a chamber 1" high: the rear door is as high as
\* the front door (0.8 and 0.8), and narrower
C28_Witness ==
    /\ Returned
    /\ specs.door_config = 2
    /\ user_input.height.m = 1 /\ user_input.width.m = 6
    /\ specs.rear_door_h = 8 /\ specs.front_door_h = 8
    /\ specs.rear_door_w = 42 /\ specs.front_door_w = 51

\* C29: cfm_recommended >= cfm_required >= 0, refractory_bags >= 0 and
\* estimated_cost >= 250 (cents here); and of two calls the one with the
\* smaller or equal chamber volume has burner_holes, holes_per_row,
\* burner_length, cfm_required, cfm_recommended and btu_required each no
\* larger than the other's.
C29_SizingMonotone ==
    Returned =>
        /\ specs.cfm_recommended >= specs.cfm_required
        /\ specs.cfm_required >= 0
        /\ specs.refractory_bags >= 0
        /\ specs.estimated_cost >= 25000
        /\ (first # NoSpecs /\ first.internal_volume <= specs.internal_volume) =>
              /\ first.burner_holes <= specs.burner_holes
              /\ first.holes_per_row <= specs.holes_per_row
              /\ first.burner_length <= specs.burner_length
              /\ first.cfm_required <= specs.cfm_required
              /\ first.cfm_recommended <= specs.cfm_recommended
              /\ first.btu_required <= specs.btu_required

\* a chamber of 6 x 10 x 1 = 60 ci and then one of 6 x 10 x 14 = 840 ci:
\* 12 holes and 4 CFM against 48 holes and 56 CFM
C29_Witness ==
    /\ Returned
    /\ first # NoSpecs
    /\ first.internal_volume = 60 /\ specs.internal_volume = 840
    /\ first.burner_holes = 12 /\ specs.burner_holes = 48
    /\ first.cfm_required = 4 /\ specs.cfm_required = 56
    /\ first.cfm_recommended = 5 /\ specs.cfm_recommended = 70

\* two different chambers of the same volume, 3 x 4 x 9 and 6 x 2 x 9
C29_WitnessEqualVolume ==
    /\ Returned
    /\ first # NoSpecs
    /\ first.internal_w = 3 /\ specs.internal_w = 6
    /\ first.internal_volume = 108 /\ specs.internal_volume = 108

\* both calculators have returned for the same four numbers: first is the
\* legacy record, specs the primary one
BothCalculators == Returned /\ first # NoSpecs

\* the burner and airflow group of the two records agree
SameBurnerGroup ==
    /\ first.holes = specs.burner_holes
    /\ first.h_per_row = specs.holes_per_row
    /\ first.b_len = specs.burner_length
    /\ first.cfm = specs.cfm_required
    /\ first.sp = specs.static_pressure

\* the legacy envelope lacks the 0.5" plate allowance on width and height
\* (1 in half inches) and has the same length
EnvelopeDiffers ==
    /\ first.ext_w = specs.external_w - 1
    /\ first.ext_h = specs.external_h - 1
    /\ first.ext_l = specs.external_l

C30_WitnessNegative ==
    /\ BothCalculators
    /\ user_input.width.m < 0 /\ user_input.height.m < 0
    /\ first.bags > specs.refractory_bags

====
